---- MODULE Spec2Model ----
(***************************************************************************)
(* A model of src/utils/helpers.py: the page-range parser                  *)
(* (parse_page_numbers) and its callers (extract_text, extract_images,     *)
(* extract_tables), the colour decoder (hex_to_rgba), the watermark canvas *)
(* (create_watermark_canvas, draw_watermark_grid), the page merge          *)
(* (merge_watermark_into_pdf) and the two together (watermark_pdf).        *)
(*                                                                         *)
(* A Python str is a sequence of one-character strings: "1-3" is           *)
(* <<"1", "-", "3">>.  A Python float that the code only divides by 255 is *)
(* the pair <<numerator, denominator>>.                                    *)
(***************************************************************************)
EXTENDS Integers, Sequences, FiniteSets, TLC

VARIABLES
    pc,                 \* position of the call being modelled
    page_numbers_str,   \* argument of parse_page_numbers / extract_*
    parsed,             \* outcome of parse_page_numbers
    hex_color,          \* argument of hex_to_rgba
    rgba,               \* outcome of hex_to_rgba
    width, height,      \* arguments of draw_watermark_grid
    step_x, step_y,     \* arguments of draw_watermark_grid
    stamp_label,        \* argument of draw_watermark_grid
    ix, iy,             \* positions of the two for loops of draw_watermark_grid
    can,                \* the canvas: transform, saved states, drawn labels
    can0,               \* the canvas as it was when draw_watermark_grid was called
    packet,             \* the BytesIO create_watermark_canvas writes the canvas to
    pdf,                \* argument of merge_watermark_into_pdf: the pages of the input
    watermark,          \* argument of merge_watermark_into_pdf: the pages of the watermark
    reader_pages,       \* reader.pages, merged in place
    writer_pages,       \* the pages added to the writer
    merged,             \* outcome of merge_watermark_into_pdf
    num_pages,          \* len(reader.pages) of the document extract_* reads
    mode,               \* argument of extract_text
    called,             \* which extract_* function ran
    visited,            \* the page accesses extract_* made, in order
    outcome             \* how extract_* ended

parseVars   == <<page_numbers_str, parsed>>
hexVars     == <<hex_color, rgba>>
gridVars    == <<width, height, step_x, step_y, stamp_label, ix, iy, can, can0, packet>>
mergeVars   == <<pdf, watermark, reader_pages, writer_pages, merged>>
extractVars == <<num_pages, mode, called, visited, outcome>>
vars == <<pc, parseVars, hexVars, gridVars, mergeVars, extractVars>>

(***************************************************************************)
(* Bounds of the model.                                                    *)
(***************************************************************************)
MaxTokens == 3          \* tokens in a page-range string
MaxHexLen == 7          \* characters of a colour string after its '#'
MaxWidthUnits == 4      \* page widths 0, 50, ..., 50 * MaxWidthUnits
MaxHeightUnits == 4     \* page heights 0, 50, ..., 50 * MaxHeightUnits
MaxPdfPages == 3        \* pages of a document to watermark
MaxPages == 3           \* pages of a document to extract from
MaxExtractTokens == 2   \* tokens in the page-range string given to extract_*

(***************************************************************************)
(* Python's str and int operations.                                        *)
(*                                                                         *)
(* A character that a TLA+ string cannot spell is named by its code point: *)
(* "U+000B" is the vertical tab, "U+FF12" the full-width digit two.  The   *)
(* character tables are those of the Unicode database of CPython 3.11      *)
(* (Unicode 14.0).                                                         *)
(***************************************************************************)
\* The ASCII whitespace: tab, line feed, vertical tab, form feed, carriage
\* return, space.
AsciiWhitespace == {" ", "\t", "\n", "\r", "\f", "U+000B"}

\* The four ASCII separator controls: whitespace to str.strip(), not to int().
SeparatorControls == {"U+001C", "U+001D", "U+001E", "U+001F"}

\* The whitespace beyond ASCII.
UnicodeWhitespace ==
    { "U+0085", "U+00A0", "U+1680", "U+2000", "U+2001", "U+2002", "U+2003",
      "U+2004", "U+2005", "U+2006", "U+2007", "U+2008", "U+2009", "U+200A",
      "U+2028", "U+2029", "U+202F", "U+205F", "U+3000" }

\* What str.strip() drops: every character whose str.isspace() is true.
Whitespace == AsciiWhitespace \cup SeparatorControls \cup UnicodeWhitespace

\* What int() drops around a literal.
IntWhitespace == AsciiWhitespace \cup UnicodeWhitespace

AsciiDigits == <<"0", "1", "2", "3", "4", "5", "6", "7", "8", "9">>

\* The decimal digits (category Nd) beyond ASCII: every run of ten, from its
\* zero to its nine.
UnicodeDecimals ==
    { <<"U+0660", "U+0661", "U+0662", "U+0663", "U+0664", "U+0665",
        "U+0666", "U+0667", "U+0668", "U+0669">>,
      <<"U+06F0", "U+06F1", "U+06F2", "U+06F3", "U+06F4", "U+06F5",
        "U+06F6", "U+06F7", "U+06F8", "U+06F9">>,
      <<"U+07C0", "U+07C1", "U+07C2", "U+07C3", "U+07C4", "U+07C5",
        "U+07C6", "U+07C7", "U+07C8", "U+07C9">>,
      <<"U+0966", "U+0967", "U+0968", "U+0969", "U+096A", "U+096B",
        "U+096C", "U+096D", "U+096E", "U+096F">>,
      <<"U+09E6", "U+09E7", "U+09E8", "U+09E9", "U+09EA", "U+09EB",
        "U+09EC", "U+09ED", "U+09EE", "U+09EF">>,
      <<"U+0A66", "U+0A67", "U+0A68", "U+0A69", "U+0A6A", "U+0A6B",
        "U+0A6C", "U+0A6D", "U+0A6E", "U+0A6F">>,
      <<"U+0AE6", "U+0AE7", "U+0AE8", "U+0AE9", "U+0AEA", "U+0AEB",
        "U+0AEC", "U+0AED", "U+0AEE", "U+0AEF">>,
      <<"U+0B66", "U+0B67", "U+0B68", "U+0B69", "U+0B6A", "U+0B6B",
        "U+0B6C", "U+0B6D", "U+0B6E", "U+0B6F">>,
      <<"U+0BE6", "U+0BE7", "U+0BE8", "U+0BE9", "U+0BEA", "U+0BEB",
        "U+0BEC", "U+0BED", "U+0BEE", "U+0BEF">>,
      <<"U+0C66", "U+0C67", "U+0C68", "U+0C69", "U+0C6A", "U+0C6B",
        "U+0C6C", "U+0C6D", "U+0C6E", "U+0C6F">>,
      <<"U+0CE6", "U+0CE7", "U+0CE8", "U+0CE9", "U+0CEA", "U+0CEB",
        "U+0CEC", "U+0CED", "U+0CEE", "U+0CEF">>,
      <<"U+0D66", "U+0D67", "U+0D68", "U+0D69", "U+0D6A", "U+0D6B",
        "U+0D6C", "U+0D6D", "U+0D6E", "U+0D6F">>,
      <<"U+0DE6", "U+0DE7", "U+0DE8", "U+0DE9", "U+0DEA", "U+0DEB",
        "U+0DEC", "U+0DED", "U+0DEE", "U+0DEF">>,
      <<"U+0E50", "U+0E51", "U+0E52", "U+0E53", "U+0E54", "U+0E55",
        "U+0E56", "U+0E57", "U+0E58", "U+0E59">>,
      <<"U+0ED0", "U+0ED1", "U+0ED2", "U+0ED3", "U+0ED4", "U+0ED5",
        "U+0ED6", "U+0ED7", "U+0ED8", "U+0ED9">>,
      <<"U+0F20", "U+0F21", "U+0F22", "U+0F23", "U+0F24", "U+0F25",
        "U+0F26", "U+0F27", "U+0F28", "U+0F29">>,
      <<"U+1040", "U+1041", "U+1042", "U+1043", "U+1044", "U+1045",
        "U+1046", "U+1047", "U+1048", "U+1049">>,
      <<"U+1090", "U+1091", "U+1092", "U+1093", "U+1094", "U+1095",
        "U+1096", "U+1097", "U+1098", "U+1099">>,
      <<"U+17E0", "U+17E1", "U+17E2", "U+17E3", "U+17E4", "U+17E5",
        "U+17E6", "U+17E7", "U+17E8", "U+17E9">>,
      <<"U+1810", "U+1811", "U+1812", "U+1813", "U+1814", "U+1815",
        "U+1816", "U+1817", "U+1818", "U+1819">>,
      <<"U+1946", "U+1947", "U+1948", "U+1949", "U+194A", "U+194B",
        "U+194C", "U+194D", "U+194E", "U+194F">>,
      <<"U+19D0", "U+19D1", "U+19D2", "U+19D3", "U+19D4", "U+19D5",
        "U+19D6", "U+19D7", "U+19D8", "U+19D9">>,
      <<"U+1A80", "U+1A81", "U+1A82", "U+1A83", "U+1A84", "U+1A85",
        "U+1A86", "U+1A87", "U+1A88", "U+1A89">>,
      <<"U+1A90", "U+1A91", "U+1A92", "U+1A93", "U+1A94", "U+1A95",
        "U+1A96", "U+1A97", "U+1A98", "U+1A99">>,
      <<"U+1B50", "U+1B51", "U+1B52", "U+1B53", "U+1B54", "U+1B55",
        "U+1B56", "U+1B57", "U+1B58", "U+1B59">>,
      <<"U+1BB0", "U+1BB1", "U+1BB2", "U+1BB3", "U+1BB4", "U+1BB5",
        "U+1BB6", "U+1BB7", "U+1BB8", "U+1BB9">>,
      <<"U+1C40", "U+1C41", "U+1C42", "U+1C43", "U+1C44", "U+1C45",
        "U+1C46", "U+1C47", "U+1C48", "U+1C49">>,
      <<"U+1C50", "U+1C51", "U+1C52", "U+1C53", "U+1C54", "U+1C55",
        "U+1C56", "U+1C57", "U+1C58", "U+1C59">>,
      <<"U+A620", "U+A621", "U+A622", "U+A623", "U+A624", "U+A625",
        "U+A626", "U+A627", "U+A628", "U+A629">>,
      <<"U+A8D0", "U+A8D1", "U+A8D2", "U+A8D3", "U+A8D4", "U+A8D5",
        "U+A8D6", "U+A8D7", "U+A8D8", "U+A8D9">>,
      <<"U+A900", "U+A901", "U+A902", "U+A903", "U+A904", "U+A905",
        "U+A906", "U+A907", "U+A908", "U+A909">>,
      <<"U+A9D0", "U+A9D1", "U+A9D2", "U+A9D3", "U+A9D4", "U+A9D5",
        "U+A9D6", "U+A9D7", "U+A9D8", "U+A9D9">>,
      <<"U+A9F0", "U+A9F1", "U+A9F2", "U+A9F3", "U+A9F4", "U+A9F5",
        "U+A9F6", "U+A9F7", "U+A9F8", "U+A9F9">>,
      <<"U+AA50", "U+AA51", "U+AA52", "U+AA53", "U+AA54", "U+AA55",
        "U+AA56", "U+AA57", "U+AA58", "U+AA59">>,
      <<"U+ABF0", "U+ABF1", "U+ABF2", "U+ABF3", "U+ABF4", "U+ABF5",
        "U+ABF6", "U+ABF7", "U+ABF8", "U+ABF9">>,
      <<"U+FF10", "U+FF11", "U+FF12", "U+FF13", "U+FF14", "U+FF15",
        "U+FF16", "U+FF17", "U+FF18", "U+FF19">>,
      <<"U+104A0", "U+104A1", "U+104A2", "U+104A3", "U+104A4", "U+104A5",
        "U+104A6", "U+104A7", "U+104A8", "U+104A9">>,
      <<"U+10D30", "U+10D31", "U+10D32", "U+10D33", "U+10D34", "U+10D35",
        "U+10D36", "U+10D37", "U+10D38", "U+10D39">>,
      <<"U+11066", "U+11067", "U+11068", "U+11069", "U+1106A", "U+1106B",
        "U+1106C", "U+1106D", "U+1106E", "U+1106F">>,
      <<"U+110F0", "U+110F1", "U+110F2", "U+110F3", "U+110F4", "U+110F5",
        "U+110F6", "U+110F7", "U+110F8", "U+110F9">>,
      <<"U+11136", "U+11137", "U+11138", "U+11139", "U+1113A", "U+1113B",
        "U+1113C", "U+1113D", "U+1113E", "U+1113F">>,
      <<"U+111D0", "U+111D1", "U+111D2", "U+111D3", "U+111D4", "U+111D5",
        "U+111D6", "U+111D7", "U+111D8", "U+111D9">>,
      <<"U+112F0", "U+112F1", "U+112F2", "U+112F3", "U+112F4", "U+112F5",
        "U+112F6", "U+112F7", "U+112F8", "U+112F9">>,
      <<"U+11450", "U+11451", "U+11452", "U+11453", "U+11454", "U+11455",
        "U+11456", "U+11457", "U+11458", "U+11459">>,
      <<"U+114D0", "U+114D1", "U+114D2", "U+114D3", "U+114D4", "U+114D5",
        "U+114D6", "U+114D7", "U+114D8", "U+114D9">>,
      <<"U+11650", "U+11651", "U+11652", "U+11653", "U+11654", "U+11655",
        "U+11656", "U+11657", "U+11658", "U+11659">>,
      <<"U+116C0", "U+116C1", "U+116C2", "U+116C3", "U+116C4", "U+116C5",
        "U+116C6", "U+116C7", "U+116C8", "U+116C9">>,
      <<"U+11730", "U+11731", "U+11732", "U+11733", "U+11734", "U+11735",
        "U+11736", "U+11737", "U+11738", "U+11739">>,
      <<"U+118E0", "U+118E1", "U+118E2", "U+118E3", "U+118E4", "U+118E5",
        "U+118E6", "U+118E7", "U+118E8", "U+118E9">>,
      <<"U+11950", "U+11951", "U+11952", "U+11953", "U+11954", "U+11955",
        "U+11956", "U+11957", "U+11958", "U+11959">>,
      <<"U+11C50", "U+11C51", "U+11C52", "U+11C53", "U+11C54", "U+11C55",
        "U+11C56", "U+11C57", "U+11C58", "U+11C59">>,
      <<"U+11D50", "U+11D51", "U+11D52", "U+11D53", "U+11D54", "U+11D55",
        "U+11D56", "U+11D57", "U+11D58", "U+11D59">>,
      <<"U+11DA0", "U+11DA1", "U+11DA2", "U+11DA3", "U+11DA4", "U+11DA5",
        "U+11DA6", "U+11DA7", "U+11DA8", "U+11DA9">>,
      <<"U+16A60", "U+16A61", "U+16A62", "U+16A63", "U+16A64", "U+16A65",
        "U+16A66", "U+16A67", "U+16A68", "U+16A69">>,
      <<"U+16AC0", "U+16AC1", "U+16AC2", "U+16AC3", "U+16AC4", "U+16AC5",
        "U+16AC6", "U+16AC7", "U+16AC8", "U+16AC9">>,
      <<"U+16B50", "U+16B51", "U+16B52", "U+16B53", "U+16B54", "U+16B55",
        "U+16B56", "U+16B57", "U+16B58", "U+16B59">>,
      <<"U+1D7CE", "U+1D7CF", "U+1D7D0", "U+1D7D1", "U+1D7D2", "U+1D7D3",
        "U+1D7D4", "U+1D7D5", "U+1D7D6", "U+1D7D7">>,
      <<"U+1D7D8", "U+1D7D9", "U+1D7DA", "U+1D7DB", "U+1D7DC", "U+1D7DD",
        "U+1D7DE", "U+1D7DF", "U+1D7E0", "U+1D7E1">>,
      <<"U+1D7E2", "U+1D7E3", "U+1D7E4", "U+1D7E5", "U+1D7E6", "U+1D7E7",
        "U+1D7E8", "U+1D7E9", "U+1D7EA", "U+1D7EB">>,
      <<"U+1D7EC", "U+1D7ED", "U+1D7EE", "U+1D7EF", "U+1D7F0", "U+1D7F1",
        "U+1D7F2", "U+1D7F3", "U+1D7F4", "U+1D7F5">>,
      <<"U+1D7F6", "U+1D7F7", "U+1D7F8", "U+1D7F9", "U+1D7FA", "U+1D7FB",
        "U+1D7FC", "U+1D7FD", "U+1D7FE", "U+1D7FF">>,
      <<"U+1E140", "U+1E141", "U+1E142", "U+1E143", "U+1E144", "U+1E145",
        "U+1E146", "U+1E147", "U+1E148", "U+1E149">>,
      <<"U+1E2F0", "U+1E2F1", "U+1E2F2", "U+1E2F3", "U+1E2F4", "U+1E2F5",
        "U+1E2F6", "U+1E2F7", "U+1E2F8", "U+1E2F9">>,
      <<"U+1E950", "U+1E951", "U+1E952", "U+1E953", "U+1E954", "U+1E955",
        "U+1E956", "U+1E957", "U+1E958", "U+1E959">>,
      <<"U+1FBF0", "U+1FBF1", "U+1FBF2", "U+1FBF3", "U+1FBF4", "U+1FBF5",
        "U+1FBF6", "U+1FBF7", "U+1FBF8", "U+1FBF9">> }

UnicodeDigits == { run[d] : run \in UnicodeDecimals, d \in 1..10 }

\* The characters int(s, 10) reads as digits.
DecDigits == { AsciiDigits[d] : d \in 1..10 } \cup UnicodeDigits

\* The characters int(s, 16) reads as digits.
HexDigits == DecDigits \cup {"a", "b", "c", "d", "e", "f", "A", "B", "C", "D", "E", "F"}

DigitValue(c) ==
    CASE c = "0" -> 0 [] c = "1" -> 1 [] c = "2" -> 2 [] c = "3" -> 3
      [] c = "4" -> 4 [] c = "5" -> 5 [] c = "6" -> 6 [] c = "7" -> 7
      [] c = "8" -> 8 [] c = "9" -> 9
      [] c \in {"a", "A"} -> 10 [] c \in {"b", "B"} -> 11
      [] c \in {"c", "C"} -> 12 [] c \in {"d", "D"} -> 13
      [] c \in {"e", "E"} -> 14 [] c \in {"f", "F"} -> 15
      [] c \in UnicodeDigits ->
           CHOOSE d \in 0..9 : \E run \in UnicodeDecimals : run[d + 1] = c

\* str.lstrip(chars)
RECURSIVE lstrip(_, _)
lstrip(s, chars) ==
    IF s # <<>> /\ Head(s) \in chars THEN lstrip(Tail(s), chars) ELSE s

\* str.rstrip(chars)
RECURSIVE rstrip(_, _)
rstrip(s, chars) ==
    IF s # <<>> /\ s[Len(s)] \in chars
    THEN rstrip(SubSeq(s, 1, Len(s) - 1), chars)
    ELSE s

\* str.strip()
strip(s) == rstrip(lstrip(s, Whitespace), Whitespace)

\* sep in s
Contains(s, sep) == \E i \in 1..Len(s) : s[i] = sep

\* str.split(sep): the pieces between the separators; "" splits to [""]
RECURSIVE split(_, _)
split(s, sep) ==
    IF ~Contains(s, sep)
    THEN <<s>>
    ELSE LET i == CHOOSE k \in 1..Len(s) :
                      s[k] = sep /\ \A j \in 1..(k - 1) : s[j] # sep
         IN  <<SubSeq(s, 1, i - 1)>> \o split(SubSeq(s, i + 1, Len(s)), sep)

\* s[i : j] with 0 <= i <= j (Python's zero-based, end-exclusive, clamped slice)
Slice(s, i, j) ==
    LET hi == IF j < Len(s) THEN j ELSE Len(s)
    IN  IF i >= hi THEN <<>> ELSE SubSeq(s, i + 1, hi)

\* The digits of an int literal: non-empty, single underscores between digits only.
DigitsOK(b, digits) ==
    /\ b # <<>>
    /\ \A i \in 1..Len(b) : b[i] \in digits \cup {"_"}
    /\ b[1] # "_"
    /\ b[Len(b)] # "_"
    /\ \A i \in 1..(Len(b) - 1) : ~(b[i] = "_" /\ b[i + 1] = "_")

RECURSIVE DigitsValue(_, _, _)
DigitsValue(b, base, acc) ==
    IF b = <<>> THEN acc
    ELSE IF Head(b) = "_" THEN DigitsValue(Tail(b), base, acc)
    ELSE DigitsValue(Tail(b), base, acc * base + DigitValue(Head(b)))

\* The digits of int(): ValueError ([ok |-> FALSE]) unless they are digits of
\* the base, grouped at most by single underscores.
IntDigits(b, neg, base) ==
    IF DigitsOK(b, IF base = 16 THEN HexDigits ELSE DecDigits)
    THEN [ok |-> TRUE,
          val |-> IF neg THEN 0 - DigitsValue(b, base, 0)
                         ELSE DigitsValue(b, base, 0)]
    ELSE [ok |-> FALSE, val |-> 0]

\* One underscore may follow the 0x of a base-16 literal.
AfterPrefix(v) == IF v # <<>> /\ Head(v) = "_" THEN Tail(v) ELSE v

\* After the sign: for base 16 an optional 0x / 0X (the zero any decimal
\* digit zero), then the digits.
IntUnsigned(u, neg, base) ==
    IF base = 16 /\ Len(u) >= 2 /\ u[1] \in DecDigits /\ DigitValue(u[1]) = 0
                 /\ u[2] \in {"x", "X"}
    THEN IntDigits(AfterPrefix(SubSeq(u, 3, Len(u))), neg, base)
    ELSE IntDigits(u, neg, base)

\* After the surrounding whitespace: an optional sign.
IntStripped(t, base) ==
    IF t # <<>> /\ Head(t) \in {"+", "-"}
    THEN IntUnsigned(Tail(t), Head(t) = "-", base)
    ELSE IntUnsigned(t, FALSE, base)

\* int(s, base) for base 10 and base 16; [ok |-> FALSE] is ValueError.
int(s, base) == IntStripped(rstrip(lstrip(s, IntWhitespace), IntWhitespace), base)

\* list(range(start, stop, step)) for step > 0
RECURSIVE range(_, _, _)
range(start, stop, step) ==
    IF start >= stop THEN <<>> ELSE <<start>> \o range(start + step, stop, step)

(***************************************************************************)
(* parse_page_numbers                                                      *)
(***************************************************************************)
ValueError == [status |-> "ValueError", value |-> <<>>]

Returned(v) == [status |-> "ok", value |-> v]

NotCalled == [status |-> "pending", value |-> <<>>]

\* parsed_page_numbers.extend(range(start, end)): the end left out.
ExtendWithRange_exclusiveEnd(start, end) ==
    IF ~start.ok \/ ~end.ok THEN ValueError
    ELSE Returned(range(start.val, end.val, 1))

\* parsed_page_numbers.extend(range(start, end + 1)), start and end what int()
\* made of the two pieces
ExtendWithRange(start, end) ==
    IF ~start.ok \/ ~end.ok THEN ValueError
    ELSE Returned(range(start.val, end.val + 1, 1))

\* start, end = map(int, part.split("-")): two pieces exactly, or ValueError
ParseRange(pieces) ==
    IF Len(pieces) # 2 THEN ValueError
    ELSE ExtendWithRange(int(pieces[1], 10), int(pieces[2], 10))

\* A part that int() cannot read is skipped instead of raising.
AppendSingle_skipUnreadable(n) == IF n.ok THEN Returned(<<n.val>>) ELSE Returned(<<>>)

\* parsed_page_numbers.append(int(part)), n what int() made of the part
AppendSingle(n) == IF n.ok THEN Returned(<<n.val>>) ELSE ValueError

\* The loop body after part = part.strip()
ParseStripped(part) ==
    IF Contains(part, "-") THEN ParseRange(split(part, "-"))
                           ELSE AppendSingle(int(part, 10))

\* One iteration of the for loop: the numbers the part adds to
\* parsed_page_numbers, or ValueError.
ParsePart(raw) == ParseStripped(strip(raw))

\* What the loop has collected after one more part: nothing once a part has raised.
Collected(first, rest) ==
    IF first.status # "ok" \/ rest.status # "ok" THEN ValueError
    ELSE Returned(first.value \o rest.value)

\* The for loop over the parts.
RECURSIVE ParseParts(_)
ParseParts(parts) ==
    IF parts = <<>> THEN Returned(<<>>)
    ELSE Collected(ParsePart(Head(parts)), ParseParts(Tail(parts)))

\* return [i - 1 for i in parsed_page_numbers]
MinusOne(r) ==
    IF r.status # "ok" THEN ValueError
    ELSE Returned([i \in 1..Len(r.value) |-> r.value[i] - 1])

parse_page_numbers(s) == MinusOne(ParseParts(split(s, ",")))

(***************************************************************************)
(* The page-range strings the model feeds to the parser: up to MaxTokens   *)
(* tokens joined by commas.                                                *)
(***************************************************************************)
Tokens ==
    { <<"2">>, <<"4">>, <<"5">>, <<"0">>,
      <<"1", "-", "3">>, <<"1", "-", "2">>, <<"2", "-", "2">>,
      <<"3", "-", "1">>, <<"5", "-", "4">>,
      <<" ", "2", " ">>, <<"1", "0">>, <<"+", "2">>, <<"1", "_", "0">>,
      <<>>, <<" ">>, <<"x">>, <<"a", "-", "b">>, <<"2", "-">>,
      <<"1", "-", "2", "-", "3">>, <<"2", " ", "3">>,
      <<"\t", "2", "\n">>, <<"1", "-", "U+00A0", "3">>, <<"U+001C", "U+FF12">> }

RECURSIVE Join(_)
Join(toks) ==
    IF toks = <<>> THEN <<>>
    ELSE IF Len(toks) = 1 THEN toks[1]
    ELSE toks[1] \o <<",">> \o Join(Tail(toks))

TokenLists(n) == UNION { [1..k -> Tokens] : k \in 0..n }

PageRangeStrings == { Join(ts) : ts \in TokenLists(MaxTokens) }

\* No BytesIO: draw_watermark_grid was called on its own.
NoPacket == [created |-> FALSE, pages |-> <<>>, pos |-> 0]

IdleParse == page_numbers_str = <<>> /\ parsed = NotCalled
IdleHex == hex_color = <<>> /\ rgba = NotCalled
IdleGrid ==
    /\ width = <<0, 1>> /\ height = <<0, 1>> /\ step_x = 1 /\ step_y = 1
    /\ stamp_label = ""
    /\ ix = 0 /\ iy = 0
    /\ can = <<>> /\ can0 = <<>>
    /\ packet = NoPacket
IdleMerge ==
    /\ pdf = <<>> /\ watermark = <<>>
    /\ reader_pages = <<>> /\ writer_pages = <<>> /\ merged = <<>>
IdleExtract ==
    /\ num_pages = 0 /\ mode = "plain" /\ called = "none"
    /\ visited = <<>> /\ outcome = "pending"

ParseInit ==
    /\ pc = "parse"
    /\ page_numbers_str \in PageRangeStrings
    /\ parsed = NotCalled
    /\ IdleHex /\ IdleGrid /\ IdleMerge /\ IdleExtract

\* A call of parse_page_numbers(page_numbers_str).
ParsePageNumbers ==
    /\ pc = "parse"
    /\ parsed' = parse_page_numbers(page_numbers_str)
    /\ pc' = "done"
    /\ UNCHANGED <<page_numbers_str, hexVars, gridVars, mergeVars, extractVars>>

ParseNext == ParsePageNumbers

SpecParse == ParseInit /\ [][ParseNext]_vars

(***************************************************************************)
(* hex_to_rgba                                                             *)
(***************************************************************************)
\* The channels divided by 256.
RgbTuple_div256(r, g, b) ==
    IF ~r.ok \/ ~g.ok \/ ~b.ok THEN ValueError
    ELSE Returned(<< <<r.val, 256>>, <<g.val, 256>>, <<b.val, 256>> >>)

\* tuple(... / 255 ...), r, g and b what int(.., 16) made of the three
\* slices: each channel is the pair <<numerator, 255>>; a slice int() cannot
\* read raises ValueError.
RgbTuple(r, g, b) ==
    IF ~r.ok \/ ~g.ok \/ ~b.ok THEN ValueError
    ELSE Returned(<< <<r.val, 255>>, <<g.val, 255>>, <<b.val, 255>> >>)

\* int(hex_color[i : i + 2], 16) for i in (0, 2, 4)
Channels(digits) ==
    RgbTuple(int(Slice(digits, 0, 2), 16),
             int(Slice(digits, 2, 4), 16),
             int(Slice(digits, 4, 6), 16))

hex_to_rgba(h) == Channels(lstrip(h, {"#"}))

\* The colour strings the model feeds to hex_to_rgba: with or without a
\* leading '#', then up to MaxHexLen characters.
HexAlphabet == {"0", "F", "a", "Z"}

HexBodies == UNION { [1..n -> HexAlphabet] : n \in 0..MaxHexLen }

\* Colour strings with whitespace or digits beyond ASCII in them.
HexOddities ==
    { <<"\t", "F", "\t", "F", "\t", "F">>,
      <<"#", "F", "\n", "F", "\n", "F", "\n">>,
      <<"U+001C", "F", "0", "0", "0", "0">>,
      <<"U+FF12", "U+FF12", "U+FF12", "U+FF12", "U+FF12", "U+FF12">>,
      <<"#", "#", "U+0660", "x", "1", "U+3000", "+", "a">> }

HexStrings ==
    { hashes \o body : hashes \in {<<>>, <<"#">>}, body \in HexBodies }
        \cup HexOddities

HexInit ==
    /\ pc = "hex"
    /\ hex_color \in HexStrings
    /\ rgba = NotCalled
    /\ IdleParse /\ IdleGrid /\ IdleMerge /\ IdleExtract

\* A call of hex_to_rgba(hex_color).
HexToRgba ==
    /\ pc = "hex"
    /\ rgba' = hex_to_rgba(hex_color)
    /\ pc' = "done"
    /\ UNCHANGED <<hex_color, parseVars, gridVars, mergeVars, extractVars>>

HexNext == HexToRgba

SpecHex == HexInit /\ [][HexNext]_vars

(***************************************************************************)
(* create_watermark_canvas and draw_watermark_grid                         *)
(*                                                                         *)
(* The canvas keeps its current transform as the list of the translate and *)
(* rotate calls that built it, the stack of saved states, and the labels   *)
(* drawn, each with the transform in force when it was drawn.  A page size *)
(* is a float <<numerator, denominator>>.  The BytesIO the canvas is saved *)
(* to holds the pages written to it, each the labels drawn on it, and the  *)
(* position of its next read.                                              *)
(***************************************************************************)
\* packet = BytesIO()
BytesIO == [created |-> TRUE, pages |-> <<>>, pos |-> 0]

LetterWidth == 612

LetterHeight == 792

\* canvas.Canvas(packet, pagesize=letter)
Canvas(size) ==
    [pagesize |-> size, font |-> <<"Helvetica", 12>>, fill |-> <<>>,
     alpha |-> <<1, 1>>, ctm |-> <<>>, stack |-> <<>>, drawn |-> <<>>]

\* What saveState() saves and restoreState() brings back.
GraphicsState(c) == [font |-> c.font, fill |-> c.fill, alpha |-> c.alpha, ctm |-> c.ctm]

saveState(c) == [c EXCEPT !.stack = Append(@, GraphicsState(c))]

restoreState(c) ==
    LET top == c.stack[Len(c.stack)] IN
    [c EXCEPT !.font = top.font, !.fill = top.fill, !.alpha = top.alpha,
              !.ctm = top.ctm, !.stack = SubSeq(@, 1, Len(@) - 1)]

translate(c, dx, dy) == [c EXCEPT !.ctm = Append(@, <<"translate", dx, dy>>)]

rotate(c, theta) == [c EXCEPT !.ctm = Append(@, <<"rotate", theta>>)]

drawCentredString(c, x, y, text) ==
    [c EXCEPT !.drawn = Append(@, [x |-> x, y |-> y, text |-> text, ctm |-> c.ctm])]

\* int(width) of a float width >= 0: the fraction is cut off
trunc(f) == f[1] \div f[2]

\* range(-100, int(width), step_x): the margin of 100 past the page left out.
GridXs_noMargin == range(-100, trunc(width), step_x)

\* range(-100, int(width) + 100, step_x)
GridXs == range(-100, trunc(width) + 100, step_x)

\* range(-100, int(height) + 100, step_y)
GridYs == range(-100, trunc(height) + 100, step_y)

Steps == {100, 150}

Labels == {"DRAFT", "COPY"}

PageWidths ==
    { <<50 * k, 1>> : k \in 0..MaxWidthUnits }
        \cup { <<100 * k + 1, 2>> : k \in 0..MaxWidthUnits }

PageHeights ==
    { <<50 * k, 1>> : k \in 0..MaxHeightUnits }
        \cup { <<100 * k + 1, 2>> : k \in 0..MaxHeightUnits }

StampColors ==
    { <<"#", "F", "F", "0", "0", "0", "0">>, <<"0", "0", "0", "0", "F", "F">>,
      <<"#", "F", "F", "F">> }

StampSizes == {12, 40}

StampTransparencies == { <<1, 10>>, <<1, 2>> }

\* Either draw_watermark_grid is called on a new canvas, or
\* create_watermark_canvas is about to run.
GridInit ==
    /\ IdleParse /\ IdleMerge /\ IdleExtract
    /\ rgba = NotCalled
    /\ ix = 0 /\ iy = 0
    /\ packet = NoPacket
    /\ stamp_label \in Labels
    /\ \/ /\ pc = "for_x"
          /\ hex_color = <<>>
          /\ width \in PageWidths /\ height \in PageHeights
          /\ step_x \in Steps /\ step_y \in Steps
          /\ can = Canvas(<<width, height>>)
          /\ can0 = can
       \/ /\ pc = "create"
          /\ hex_color \in StampColors
          /\ width = <<0, 1>> /\ height = <<0, 1>> /\ step_x = 1 /\ step_y = 1
          /\ can = <<>> /\ can0 = <<>>

\* create_watermark_canvas up to its call of draw_watermark_grid: the packet,
\* the canvas of letter size, its font, fill colour and alpha, then
\* saveState(); a colour hex_to_rgba cannot read raises.
CreateWatermarkCanvas ==
    /\ pc = "create"
    /\ packet' = BytesIO
    /\ rgba' = hex_to_rgba(hex_color)
    /\ IF rgba'.status # "ok"
       THEN /\ pc' = "raised"
            /\ UNCHANGED <<width, height, step_x, step_y, can, can0>>
       ELSE \E stamp_size \in StampSizes, stamp_transparency \in StampTransparencies :
            /\ can' = saveState(
                   [Canvas(<< <<LetterWidth, 1>>, <<LetterHeight, 1>> >>)
                       EXCEPT !.font = <<"Helvetica", stamp_size>>,
                              !.fill = rgba'.value,
                              !.alpha = stamp_transparency])
            /\ can0' = can'
            /\ width' = <<LetterWidth, 1>> /\ height' = <<LetterHeight, 1>>
            /\ step_x' = 150 /\ step_y' = 100
            /\ pc' = "for_x"
    /\ UNCHANGED <<hex_color, stamp_label, ix, iy, parseVars, mergeVars, extractVars>>

\* for x in range(-100, int(width) + 100, step_x): the next x, or the end of
\* draw_watermark_grid, back in create_watermark_canvas if that made the call
ForX ==
    /\ pc = "for_x"
    /\ IF ix < Len(GridXs)
       THEN ix' = ix + 1 /\ iy' = 0 /\ pc' = "for_y"
       ELSE /\ pc' = IF packet.created THEN "save" ELSE "done"
            /\ UNCHANGED <<ix, iy>>
    /\ UNCHANGED <<width, height, step_x, step_y, stamp_label, can, can0, packet,
                   parseVars, hexVars, mergeVars, extractVars>>

\* for y in range(-100, int(height) + 100, step_y): the next y, or the next x
ForY ==
    /\ pc = "for_y"
    /\ IF iy < Len(GridYs)
       THEN iy' = iy + 1 /\ pc' = "saveState"
       ELSE pc' = "for_x" /\ UNCHANGED iy
    /\ UNCHANGED <<width, height, step_x, step_y, stamp_label, ix, can, can0, packet,
                   parseVars, hexVars, mergeVars, extractVars>>

GridStep(from, to, canvas) ==
    /\ pc = from
    /\ can' = canvas
    /\ pc' = to
    /\ UNCHANGED <<width, height, step_x, step_y, stamp_label, ix, iy, can0, packet,
                   parseVars, hexVars, mergeVars, extractVars>>

\* can.saveState()
SaveState == GridStep("saveState", "translate", saveState(can))

\* can.translate(x, y)
Translate == GridStep("translate", "rotate", translate(can, GridXs[ix], GridYs[iy]))

\* can.rotate(45)
Rotate == GridStep("rotate", "drawCentredString", rotate(can, 45))

\* can.drawCentredString(0, 0, stamp_label)
DrawCentredString ==
    GridStep("drawCentredString", "restoreState", drawCentredString(can, 0, 0, stamp_label))

\* The tile left without can.restoreState().
RestoreState_missing == GridStep("restoreState", "for_y", can)

\* can.restoreState()
RestoreState == GridStep("restoreState", "for_y", restoreState(can))

\* The end of create_watermark_canvas: can.save() writes the page, the
\* labels drawn on it, to the packet and leaves the canvas as new;
\* packet.seek(0); return packet
SaveCanvas ==
    /\ pc = "save"
    /\ packet' = [packet EXCEPT !.pages = Append(@, can.drawn), !.pos = 0]
    /\ can' = Canvas(can.pagesize)
    /\ pc' = "created"
    /\ UNCHANGED <<width, height, step_x, step_y, stamp_label, ix, iy, can0,
                   parseVars, hexVars, mergeVars, extractVars>>

GridNext ==
    \/ CreateWatermarkCanvas
    \/ ForX
    \/ ForY
    \/ SaveState
    \/ Translate
    \/ Rotate
    \/ DrawCentredString
    \/ RestoreState
    \/ SaveCanvas

SpecGrid == GridInit /\ [][GridNext]_vars

(***************************************************************************)
(* merge_watermark_into_pdf                                                *)
(*                                                                         *)
(* A document is the sequence of its pages; a page is the sequence of its  *)
(* content layers in painting order, the first painted first.              *)
(***************************************************************************)
\* page.merge_page(page2, over): page2's content over the page's, or under it
merge_page(page, page2, over) == IF over THEN page \o page2 ELSE page2 \o page

PageContents == { <<"text">>, <<"image">>, <<"image", "text">> }

Documents == UNION { [1..n -> PageContents] : n \in 0..MaxPdfPages }

Watermarks == { << <<"stamp">> >>, << <<"stamp", "stamp2">>, <<"blank">> >> }

MergeInit ==
    /\ pc = "merge_open"
    /\ pdf \in Documents
    /\ watermark \in Watermarks
    /\ reader_pages = <<>> /\ writer_pages = <<>> /\ merged = <<>>
    /\ IdleParse /\ IdleHex /\ IdleGrid /\ IdleExtract

\* writer = PdfWriter(); reader = PdfReader(BytesIO(pdf));
\* watermark_page = PdfReader(watermark).pages[0]
OpenReaders ==
    /\ pc = "merge_open"
    /\ reader_pages' = pdf
    /\ writer_pages' = <<>>
    /\ pc' = "merge_loop"
    /\ UNCHANGED <<pdf, watermark, merged, parseVars, hexVars, gridVars, extractVars>>

\* The loop body with the watermark merged over the page: over=True.
MergeNextPage_over ==
    LET i == Len(writer_pages) + 1 IN
    /\ pc = "merge_loop"
    /\ i <= Len(reader_pages)
    /\ reader_pages' =
          [reader_pages EXCEPT ![i] = merge_page(@, watermark[1], TRUE)]
    /\ writer_pages' = Append(writer_pages, reader_pages'[i])
    /\ UNCHANGED <<pc, pdf, watermark, merged, parseVars, hexVars, gridVars, extractVars>>

\* for page in reader.pages: page.merge_page(watermark_page, over=False);
\* writer.add_page(page)
MergeNextPage ==
    LET i == Len(writer_pages) + 1 IN
    /\ pc = "merge_loop"
    /\ i <= Len(reader_pages)
    /\ reader_pages' =
          [reader_pages EXCEPT ![i] = merge_page(@, watermark[1], FALSE)]
    /\ writer_pages' = Append(writer_pages, reader_pages'[i])
    /\ UNCHANGED <<pc, pdf, watermark, merged, parseVars, hexVars, gridVars, extractVars>>

\* writer.write(fp); return fp.read()
WriteMerged ==
    /\ pc = "merge_loop"
    /\ Len(writer_pages) = Len(reader_pages)
    /\ merged' = writer_pages
    /\ pc' = "done"
    /\ UNCHANGED <<pdf, watermark, reader_pages, writer_pages,
                   parseVars, hexVars, gridVars, extractVars>>

MergeNext ==
    \/ OpenReaders
    \/ MergeNextPage
    \/ WriteMerged

SpecMerge == MergeInit /\ [][MergeNext]_vars

(***************************************************************************)
(* watermark_pdf: create_watermark_canvas, then merge_watermark_into_pdf   *)
(* with the packet it returned.                                            *)
(***************************************************************************)
WatermarkInit ==
    /\ pc = "create"
    /\ pdf \in Documents
    /\ hex_color \in StampColors
    /\ stamp_label \in Labels
    /\ rgba = NotCalled
    /\ watermark = <<>> /\ reader_pages = <<>> /\ writer_pages = <<>> /\ merged = <<>>
    /\ width = <<0, 1>> /\ height = <<0, 1>> /\ step_x = 1 /\ step_y = 1
    /\ ix = 0 /\ iy = 0
    /\ can = <<>> /\ can0 = <<>>
    /\ packet = NoPacket
    /\ IdleParse /\ IdleExtract

\* return merge_watermark_into_pdf(pdf, watermark), watermark the packet
\* create_watermark_canvas returned, read from its start
MergeWatermark ==
    /\ pc = "created"
    /\ packet.pos = 0
    /\ watermark' = packet.pages
    /\ pc' = "merge_open"
    /\ UNCHANGED <<pdf, reader_pages, writer_pages, merged,
                   parseVars, hexVars, gridVars, extractVars>>

WatermarkNext ==
    \/ GridNext
    \/ MergeWatermark
    \/ MergeNext

SpecWatermark == WatermarkInit /\ [][WatermarkNext]_vars

(***************************************************************************)
(* extract_text, extract_images, extract_tables                            *)
(*                                                                         *)
(* The document has num_pages pages, numbered from 0.  A call's result is  *)
(* the list of the pages it read, each with the index it was reached by    *)
(* and the extraction mode used, and how the call ended.                   *)
(***************************************************************************)
Visit(index, page, m) == [index |-> index, page |-> page, mode |-> m]

\* for page in reader.pages
AllPages(n, m) == [i \in 1..n |-> Visit(i - 1, i - 1, m)]

\* reader.pages[index] for each index in turn: a negative index counts from
\* the end, an index outside -n .. n-1 raises IndexError and ends the loop.
RECURSIVE Subscripted(_, _, _)
Subscripted(indices, n, m) ==
    IF indices = <<>> THEN [visited |-> <<>>, outcome |-> "ok"]
    ELSE LET index == Head(indices) IN
         IF index >= n \/ index < 0 - n
         THEN [visited |-> <<>>, outcome |-> "IndexError"]
         ELSE LET rest == Subscripted(Tail(indices), n, m)
                  page == IF index < 0 THEN n + index ELSE index
              IN  [visited |-> <<Visit(index, page, m)>> \o rest.visited,
                   outcome |-> rest.outcome]

\* pages[index : index + 1] for each index in turn: the slice holds the page
\* of that index, or nothing when there is none.
RECURSIVE Sliced(_, _, _)
Sliced(indices, n, m) ==
    IF indices = <<>> THEN <<>>
    ELSE LET index == Head(indices)
             from == IF index < 0 THEN (IF n + index < 0 THEN 0 ELSE n + index)
                     ELSE (IF index > n THEN n ELSE index)
             stop == IF index + 1 < 0
                     THEN (IF n + index + 1 < 0 THEN 0 ELSE n + index + 1)
                     ELSE (IF index + 1 > n THEN n ELSE index + 1)
         IN  [k \in 1..(IF stop > from THEN stop - from ELSE 0)
                 |-> Visit(from + k - 1, from + k - 1, m)]
             \o Sliced(Tail(indices), n, m)

All == <<"a", "l", "l">>

\* extract_text(reader, page_numbers_str, mode), `pages` being what
\* parse_page_numbers(page_numbers_str) gave in the else branch: that branch
\* calls page.extract_text() with its default mode, "plain".
extract_text(n, s, m, pages) ==
    IF s = All
    THEN [visited |-> AllPages(n, m), outcome |-> "ok"]
    ELSE IF pages.status # "ok"
         THEN [visited |-> <<>>, outcome |-> "ValueError"]
         ELSE Subscripted(pages.value, n, "plain")

extract_images(n, s, pages) ==
    IF s = All
    THEN [visited |-> AllPages(n, "none"), outcome |-> "ok"]
    ELSE IF pages.status # "ok"
         THEN [visited |-> <<>>, outcome |-> "ValueError"]
         ELSE Subscripted(pages.value, n, "none")

extract_tables(n, s, pages) ==
    IF s = All
    THEN [visited |-> AllPages(n, "none"), outcome |-> "ok"]
    ELSE IF pages.status # "ok"
         THEN [visited |-> <<>>, outcome |-> "ValueError"]
         ELSE [visited |-> Sliced(pages.value, n, "none"), outcome |-> "ok"]

ExtractTokens ==
    { <<"0">>, <<"1">>, <<"2">>, <<"3">>, <<"4">>, <<"5">>,
      <<"1", "-", "1">>, <<"1", "-", "2">>, <<"1", "-", "3">>, <<"1", "-", "4">>,
      <<"0", "-", "1">>, <<"3", "-", "1">>, <<"x">> }

ExtractStrings ==
    { All, <<>> }
        \cup { Join(ts) : ts \in UNION { [1..k -> ExtractTokens] : k \in 1..MaxExtractTokens } }

ExtractInit ==
    /\ pc = "extract"
    /\ page_numbers_str \in ExtractStrings
    /\ parsed = NotCalled
    /\ num_pages \in 1..MaxPages
    /\ mode \in {"plain", "layout"}
    /\ called = "none" /\ visited = <<>> /\ outcome = "pending"
    /\ IdleHex /\ IdleGrid /\ IdleMerge

\* pages = parse_page_numbers(page_numbers_str), in the else branch only
ParsedPages ==
    IF page_numbers_str = All THEN NotCalled ELSE parse_page_numbers(page_numbers_str)

Extracted(name, result) ==
    /\ called' = name
    /\ visited' = result.visited
    /\ outcome' = result.outcome
    /\ pc' = "done"
    /\ UNCHANGED <<num_pages, mode, page_numbers_str, hexVars, gridVars, mergeVars>>

\* A call of extract_text(reader, page_numbers_str, mode).
ExtractText ==
    /\ pc = "extract"
    /\ parsed' = ParsedPages
    /\ Extracted("extract_text",
                 extract_text(num_pages, page_numbers_str, mode, parsed'))

\* A call of extract_images(reader, page_numbers_str).
ExtractImages ==
    /\ pc = "extract"
    /\ parsed' = ParsedPages
    /\ Extracted("extract_images",
                 extract_images(num_pages, page_numbers_str, parsed'))

\* A call of extract_tables(file, page_numbers_str).
ExtractTables ==
    /\ pc = "extract"
    /\ parsed' = ParsedPages
    /\ Extracted("extract_tables",
                 extract_tables(num_pages, page_numbers_str, parsed'))

ExtractNext ==
    \/ ExtractText
    \/ ExtractImages
    \/ ExtractTables

SpecExtract == ExtractInit /\ [][ExtractNext]_vars

(***************************************************************************)
(* The page-range grammar of the specification, stated on the string       *)
(* itself: tokens are what lies between the commas; a token is read        *)
(* without the whitespace around it.                                       *)
(***************************************************************************)
Commas(s) == { i \in 1..Len(s) : s[i] = "," }

NumTokens(s) == Cardinality(Commas(s)) + 1

\* The position of the k-th comma; 0 before the first token, Len(s) + 1 after the last.
CommaAt(s, k) ==
    IF k = 0 THEN 0
    ELSE IF k > Cardinality(Commas(s)) THEN Len(s) + 1
    ELSE CHOOSE i \in Commas(s) : Cardinality({ j \in Commas(s) : j < i }) = k - 1

Trimmed(t) ==
    LET inked == { i \in 1..Len(t) : t[i] \notin Whitespace } IN
    IF inked = {} THEN <<>>
    ELSE SubSeq(t, CHOOSE i \in inked : \A j \in inked : i <= j,
                   CHOOSE i \in inked : \A j \in inked : i >= j)

TokenAt(s, k) == Trimmed(SubSeq(s, CommaAt(s, k - 1) + 1, CommaAt(s, k) - 1))

Hyphens(t) == { i \in 1..Len(t) : t[i] = "-" }

DigitChars == <<"0", "1", "2", "3", "4", "5", "6", "7", "8", "9">>

IsNumeral(t) ==
    t # <<>> /\ \A i \in 1..Len(t) : \E d \in 1..10 : DigitChars[d] = t[i]

RECURSIVE NumeralValue(_)
NumeralValue(t) ==
    IF t = <<>> THEN 0
    ELSE 10 * NumeralValue(SubSeq(t, 1, Len(t) - 1))
         + (CHOOSE d \in 0..9 : DigitChars[d + 1] = t[Len(t)])

LeftOf(t) == SubSeq(t, 1, (CHOOSE i \in Hyphens(t) : TRUE) - 1)

RightOf(t) == SubSeq(t, (CHOOSE i \in Hyphens(t) : TRUE) + 1, Len(t))

IsSingle(t) == IsNumeral(t) /\ NumeralValue(t) >= 1

\* a-b with two numerals (its bounds are compared by the caller)
IsPair(t) ==
    /\ Cardinality(Hyphens(t)) = 1
    /\ IsNumeral(LeftOf(t))
    /\ IsNumeral(RightOf(t))

IsRange(t) ==
    IsPair(t) /\ 1 <= NumeralValue(LeftOf(t))
              /\ NumeralValue(LeftOf(t)) <= NumeralValue(RightOf(t))

IsInvertedRange(t) ==
    IsPair(t) /\ NumeralValue(LeftOf(t)) > NumeralValue(RightOf(t))

WellFormed(s) ==
    \A k \in 1..NumTokens(s) : IsSingle(TokenAt(s, k)) \/ IsRange(TokenAt(s, k))

\* The zero-based indices one well-formed token stands for.
Expansion(t) ==
    IF IsSingle(t) THEN <<NumeralValue(t) - 1>>
    ELSE [i \in 1..(NumeralValue(RightOf(t)) - NumeralValue(LeftOf(t)) + 1)
            |-> NumeralValue(LeftOf(t)) + i - 2]

RECURSIVE ExpansionUpTo(_, _)
ExpansionUpTo(s, k) ==
    IF k = 0 THEN <<>> ELSE ExpansionUpTo(s, k - 1) \o Expansion(TokenAt(s, k))

RECURSIVE SizeUpTo(_, _)
SizeUpTo(s, k) ==
    IF k = 0 THEN 0
    ELSE SizeUpTo(s, k - 1)
         + (IF IsSingle(TokenAt(s, k)) THEN 1
            ELSE NumeralValue(RightOf(TokenAt(s, k)))
                 - NumeralValue(LeftOf(TokenAt(s, k))) + 1)

\* A number as int() reads one: whitespace around it, an optional sign,
\* decimal digits of any script that single underscores may group.
IsNumber(t) ==
    LET u == Trimmed(t)
        b == IF u # <<>> /\ u[1] \in {"+", "-"} THEN SubSeq(u, 2, Len(u)) ELSE u
        groups == { i \in 1..Len(b) : b[i] = "_" }
    IN  /\ b # <<>>
        /\ \A i \in 1..Len(b) :
              i \in groups \/ IsNumeral(<<b[i]>>) \/ b[i] \in UnicodeDigits
        /\ \A i \in groups : i > 1 /\ i < Len(b) /\ (i + 1) \notin groups

IsEmptyToken(t) == t = <<>>

HasSeveralHyphens(t) == Cardinality(Hyphens(t)) > 1

IsNonNumeric(t) ==
    \/ Hyphens(t) = {} /\ ~IsNumber(t)
    \/ Cardinality(Hyphens(t)) = 1 /\ (~IsNumber(LeftOf(t)) \/ ~IsNumber(RightOf(t)))

IsMalformed(t) == IsEmptyToken(t) \/ HasSeveralHyphens(t) \/ IsNonNumeric(t)

\* C1: for every well-formed page-range string parse_page_numbers returns the
\* tokens' expansions in token order, ranges ascending, every value reduced by
\* one, duplicates kept; the length is the sum of the range sizes plus the
\* number of single tokens; "2" gives [1], "1-3" gives [0,1,2], "2,4" gives
\* [1,3] and "1-3,5" gives [0,1,2,4].
C1_WellFormedExpands ==
    pc = "done" =>
        /\ WellFormed(page_numbers_str) =>
              /\ parsed = Returned(ExpansionUpTo(page_numbers_str,
                                                 NumTokens(page_numbers_str)))
              /\ Len(parsed.value) = SizeUpTo(page_numbers_str,
                                              NumTokens(page_numbers_str))
        /\ page_numbers_str = <<"2">> => parsed = Returned(<<1>>)
        /\ page_numbers_str = <<"1", "-", "3">> => parsed = Returned(<<0, 1, 2>>)
        /\ page_numbers_str = <<"2", ",", "4">> => parsed = Returned(<<1, 3>>)
        /\ page_numbers_str = <<"1", "-", "3", ",", "5">>
              => parsed = Returned(<<0, 1, 2, 4>>)

\* A well-formed string with a range, a single page and a page named twice was parsed.
C1_Witness ==
    /\ pc = "done"
    /\ page_numbers_str = <<"1", "-", "3", ",", "5", ",", "2">>
    /\ WellFormed(page_numbers_str)
    /\ parsed = Returned(<<0, 1, 2, 4, 1>>)

\* C2: parse_page_numbers fails with a parse error for every input that
\* contains an inverted range token a-b with a > b; it never returns a list
\* for such an input.
C2_InvertedRangeFails ==
    (pc = "done" /\ \E k \in 1..NumTokens(page_numbers_str) :
                        IsInvertedRange(TokenAt(page_numbers_str, k)))
        => parsed.status = "ValueError"

\* C3: parse_page_numbers fails, returning no partial result, whenever any
\* token of the input is empty (the empty string, a trailing or doubled comma),
\* is non-numeric or holds more than one hyphen, however many valid tokens
\* precede it.
C3_MalformedFails ==
    (pc = "done" /\ \E k \in 1..NumTokens(page_numbers_str) :
                        IsMalformed(TokenAt(page_numbers_str, k)))
        => parsed = ValueError

\* Valid tokens, then a malformed one: the call failed.
C3_Witness ==
    /\ pc = "done"
    /\ page_numbers_str = <<"1", "-", "3", ",", "5", ",">>
    /\ IsSingle(TokenAt(page_numbers_str, 2))
    /\ IsEmptyToken(TokenAt(page_numbers_str, 3))
    /\ parsed = ValueError

(***************************************************************************)
(* Colour strings as the specification reads them.                         *)
(***************************************************************************)
LowerHex == <<"0", "1", "2", "3", "4", "5", "6", "7", "8", "9",
              "a", "b", "c", "d", "e", "f">>

UpperHex == <<"0", "1", "2", "3", "4", "5", "6", "7", "8", "9",
              "A", "B", "C", "D", "E", "F">>

IsHexDigit(c) == \E d \in 1..16 : LowerHex[d] = c \/ UpperHex[d] = c

HexDigitValue(c) == (CHOOSE d \in 1..16 : LowerHex[d] = c \/ UpperHex[d] = c) - 1

\* The string without its one optional leading '#'.
WithoutHash(h) == IF h # <<>> /\ h[1] = "#" THEN SubSeq(h, 2, Len(h)) ELSE h

IsSixHexDigits(b) == Len(b) = 6 /\ \A i \in 1..6 : IsHexDigit(b[i])

\* The value 0..255 of the k-th pair of digits.
PairValue(b, k) == 16 * HexDigitValue(b[2 * k - 1]) + HexDigitValue(b[2 * k])

\* C4: hex_to_rgba fails with a format error for every colour string that,
\* without its optional leading '#', is not exactly 6 hexadecimal digits (too
\* short, too long, or holding a non-hex character); it never returns a
\* colour for such a string.
C4_MalformedColourFails ==
    (pc = "done" /\ ~IsSixHexDigits(WithoutHash(hex_color))) => rgba = ValueError

\* C8: for every string of exactly 6 hexadecimal digits, with or without one
\* leading '#', hex_to_rgba returns (R/255, G/255, B/255), R, G and B the
\* values 0..255 of the first, second and third pair of digits; "#FFFFFF"
\* gives (1.0, 1.0, 1.0) and "000000" gives (0.0, 0.0, 0.0).
C8_SixDigitsDecode ==
    pc = "done" =>
        /\ IsSixHexDigits(WithoutHash(hex_color)) =>
              /\ rgba.status = "ok"
              /\ Len(rgba.value) = 3
              /\ \A k \in 1..3 :
                    /\ rgba.value[k] = <<PairValue(WithoutHash(hex_color), k), 255>>
                    /\ PairValue(WithoutHash(hex_color), k) \in 0..255
        /\ hex_color = <<"#", "F", "F", "F", "F", "F", "F">> =>
              /\ rgba.status = "ok"
              /\ \A k \in 1..3 : rgba.value[k][1] = rgba.value[k][2]
        /\ hex_color = <<"0", "0", "0", "0", "0", "0">> =>
              /\ rgba.status = "ok"
              /\ \A k \in 1..3 : rgba.value[k][1] = 0 /\ rgba.value[k][2] # 0

\* A colour of three different channels, written with its '#', was decoded.
C8_Witness ==
    /\ pc = "done"
    /\ hex_color = <<"#", "F", "F", "a", "0", "0", "F">>
    /\ rgba = Returned(<< <<255, 255>>, <<160, 255>>, <<15, 255>> >>)

(***************************************************************************)
(* The tiles a finished draw_watermark_grid call has drawn.                *)
(***************************************************************************)
\* Where a drawn label's own translate call put it.
TileOrigin(d) == LET t == d.ctm[Len(d.ctm) - 1] IN <<t[2], t[3]>>

OriginXs == { TileOrigin(can.drawn[i])[1] : i \in 1..Len(can.drawn) }

OriginYs == { TileOrigin(can.drawn[i])[2] : i \in 1..Len(can.drawn) }

Origins == { TileOrigin(can.drawn[i]) : i \in 1..Len(can.drawn) }

Least(S) == CHOOSE v \in S : \A w \in S : v <= w

Greatest(S) == CHOOSE v \in S : \A w \in S : v >= w

\* From -100 on, neighbours exactly `step` apart.
EvenlySpaced(S, step) ==
    /\ Least(S) = -100
    /\ \A v \in S : v = Greatest(S) \/ (v + step) \in S
    /\ \A v \in S : v = Least(S) \/ (v - step) \in S

\* A finished call for a page of whole-number width and height.
GridDoneOnWholePage == pc \in {"done", "save"} /\ width[2] = 1 /\ height[2] = 1

\* The tiles form the full lattice, which starts at (-100, -100).
GridIsLattice ==
    /\ Origins = OriginXs \X OriginYs
    /\ Len(can.drawn) = Cardinality(Origins)
    /\ EvenlySpaced(OriginXs, step_x)
    /\ EvenlySpaced(OriginYs, step_y)

\* C6 as stated: for every integer page width and height >= 0 the tile
\* origins start at x = -100 and y = -100, include an origin with x >= page
\* width and one with y >= page height, and lie exactly stepX apart
\* horizontally and stepY apart vertically (stated for the step sizes 150
\* and 100 that create_watermark_canvas gives).
C6_OriginsReachPageEdge ==
    (GridDoneOnWholePage /\ step_x = 150 /\ step_y = 100) =>
        /\ GridIsLattice
        /\ \E x \in OriginXs : x >= width[1]
        /\ \E y \in OriginYs : y >= height[1]

\* C6, amended: the origins start at (-100, -100), lie exactly stepX and
\* stepY apart, and reach x >= width + 100 - stepX and y >= height + 100 -
\* stepY; every point of the page has a column of origins less than stepX to
\* its left and a row less than stepY below it.
C6_OriginsReachWithinStep ==
    GridDoneOnWholePage =>
        /\ GridIsLattice
        /\ \E x \in OriginXs : x >= width[1] + 100 - step_x
        /\ \E y \in OriginYs : y >= height[1] + 100 - step_y
        /\ \A px \in 0..width[1] : \E x \in OriginXs : x <= px /\ px - x < step_x
        /\ \A py \in 0..height[1] : \E y \in OriginYs : y <= py /\ py - y < step_y

\* A page 100 wide tiled every 150: the last column is at x = 50, inside the page.
C6_Witness ==
    /\ GridDoneOnWholePage
    /\ width = <<100, 1>> /\ step_x = 150
    /\ OriginXs = {-100, 50}
    /\ Len(can.drawn) > 1

\* C9: every tile is drawn as save state, translate to (x, y), rotate 45
\* degrees, draw label, restore state: each label is drawn at its own grid
\* origin under exactly one translation and one rotation of 45 degrees on top
\* of the transform the canvas had at the call, and after the call the
\* canvas's transform and its stack of saved states are as before the call.
C9_TilesDoNotAccumulate ==
    LET rows == (trunc(height) + 100 + 100 + step_y - 1) \div step_y IN
    pc \notin {"create", "raised", "created"} =>
        /\ \A i \in 1..Len(can.drawn) :
              /\ can.drawn[i].ctm =
                    can0.ctm \o << <<"translate",
                                     -100 + step_x * ((i - 1) \div rows),
                                     -100 + step_y * ((i - 1) % rows)>>,
                                   <<"rotate", 45>> >>
              /\ can.drawn[i].text = stamp_label
              /\ can.drawn[i].x = 0 /\ can.drawn[i].y = 0
        /\ pc \in {"for_x", "for_y", "done", "save"} =>
              can = [can0 EXCEPT !.drawn = can.drawn]
        /\ pc \in {"translate", "rotate", "drawCentredString", "restoreState"} =>
              /\ Len(can.stack) = Len(can0.stack) + 1
              /\ can.stack[Len(can.stack)] = GraphicsState(can0)
        /\ pc \in {"done", "save"} =>
              Len(can.drawn) =
                  ((trunc(width) + 100 + 100 + step_x - 1) \div step_x) * rows

\* The grid of create_watermark_canvas is finished: many tiles, and the one
\* state saved before the call is still the only one saved.
C9_Witness ==
    /\ pc = "save"
    /\ Len(can.drawn) = 60
    /\ Len(can0.stack) = 1
    /\ can.stack = can0.stack
    /\ can.ctm = can0.ctm
    /\ TileOrigin(can.drawn[60]) = <<650, 800>>

\* C7: merge_watermark_into_pdf produces a document with as many pages as the
\* input, in the same order; every page carries the watermark layer, and the
\* page's own content, unchanged, is painted over it: the watermark is the
\* background of every page.
C7_WatermarkUnderEveryPage ==
    /\ pc = "done" =>
          /\ Len(merged) = Len(pdf)
          /\ \A i \in 1..Len(pdf) :
                /\ Len(merged[i]) = Len(watermark[1]) + Len(pdf[i])
                /\ SubSeq(merged[i], 1, Len(watermark[1])) = watermark[1]
                /\ SubSeq(merged[i], Len(watermark[1]) + 1, Len(merged[i])) = pdf[i]
    /\ pc = "merge_loop" =>
          \A i \in 1..Len(writer_pages) :
              /\ writer_pages[i][1] = watermark[1][1]
              /\ writer_pages[i][Len(writer_pages[i])] = pdf[i][Len(pdf[i])]

\* A document of three pages, not all alike, was watermarked.
C7_Witness ==
    /\ pc = "done"
    /\ pdf = << <<"text">>, <<"image", "text">>, <<"image">> >>
    /\ merged = << <<"stamp", "text">>, <<"stamp", "image", "text">>,
                   <<"stamp", "image">> >>

\* C5: every caller of parse_page_numbers validates each index against the
\* document's page count before using it: no page is reached by an index
\* that is negative or >= the number of pages.
C5_IndicesValidated ==
    pc = "done" =>
        \A i \in 1..Len(visited) :
            visited[i].index >= 0 /\ visited[i].index < num_pages

\* "1-N" for a document of n pages, n <= 9
OneToN(n) == <<"1", "-", DigitChars[n + 1]>>

\* C10: extract_text applies the caller's extraction mode to every page it
\* extracts, for "all" and for a page-range string alike; so for a document
\* of N pages "all" and "1-N" read the same pages in the same order with the
\* same mode.
C10_ModeAppliedToEveryPage ==
    (pc = "done" /\ called = "extract_text") =>
        /\ \A i \in 1..Len(visited) : visited[i].mode = mode
        /\ page_numbers_str = OneToN(num_pages) =>
              /\ outcome = "ok"
              /\ visited = extract_text(num_pages, All, mode, NotCalled).visited

====
